---- MODULE Spec2Model ----
(***************************************************************************)
(* Model of LiveF1Monitor (src/live_monitor.py): the polling loop of       *)
(* start_monitoring, the bounded timing/weather history kept by            *)
(* _process_live_data, the callback fan-out of _notify_callbacks, and the  *)
(* query surface.                                                          *)
(*                                                                         *)
(* start_monitoring is a coroutine: it runs without interruption between   *)
(* its two await points (the pending fetch, line 52, and the sleep, line   *)
(* 58), so each action below is the code between two await points.  The    *)
(* other methods are plain calls that a caller may make whenever no such   *)
(* stretch is running.                                                     *)
(*                                                                         *)
(* Time is counted in polling intervals: one unit of `now` is one          *)
(* update_interval of wall-clock time.                                     *)
(***************************************************************************)
EXTENDS Integers, Sequences, FiniteSets, TLC

\* ------------------------------------------------------------------ bounds
\* The history capacity.  The code fixes it to the literal 100 (line 151);
\* the handlers are parametric in it and the model runs them at a small
\* capacity so that eviction happens within the explored runs.
MaxDataPoints == 2
\* The clock is explored up to this many polling intervals when the polling
\* loop runs alone (SpecPolling) ...
MaxTime == 6
\* ... and up to this many when every operation is interleaved (Spec).
ShortTime == 2
\* The feed fails at most this many times in a run.
MaxFetchFailures == 1
\* Longest callback list explored.
MaxCallbacks == 2
\* The caller has emptied at most this many live lists at any time.
MaxMutatedLists == 1
\* Drivers per simulated snapshot (a prefix of the code's list of ten).
NumDrivers == 2
\* Longest telemetry trace handed to the corner and braking detectors.
MaxSamples == 5
\* Metres of track between two consecutive telemetry samples.
SampleSpacing == 10
\* Most laps of one driver in the lap tables explored for the pace and
\* pit-stop statistics ...
MaxLaps == 6
\* ... and in those explored for the degradation statistic.
MaxStintLaps == 4

\* ------------------------------------------------------- program constants
update_interval == 5
\* analyze_braking_points: brake pressure above which the car is braking.
brake_threshold == 50

\* The start_monitoring coroutines: a first call and a second one.
Loops == {1, 2}
\* Callback identities.  Callback 1 returns normally (LiveDataCallback);
\* callback 2 raises an Exception on every invocation.
Callbacks == {1, 2}
FailingCallbacks == {2}
\* Subscribers that call back into the monitor while they are being
\* notified: callback 3 unsubscribes itself (remove_callback(self), a
\* one-shot subscriber); callback 4 registers callback 1 unless it is
\* already registered (add_callback).
RemovingCallbacks == {3}
AddingCallbacks == {4}
ReentrantCallbacks == RemovingCallbacks \cup AddingCallbacks

VARIABLES
    is_monitoring,   \* self.is_monitoring
    session_keys,    \* FALSE while self.session_data is the {} of __init__
    start_time,      \* session_data['start_time']
    timing_data,     \* session_data['timing_data']: timestamp -> list reference
    weather_data,    \* session_data['weather_data']: timestamp -> weather dict
    track_status,    \* session_data['track_status']
    callbacks,       \* self.callbacks, a list
    pc,              \* per coroutine: "idle", "fetch", "sleep" or "done"
    live_data,       \* per coroutine: the local live_data of the loop body
    now,             \* datetime.now(), in polling intervals
    heap,            \* list objects by reference: the 'drivers' lists
    notified,        \* the callback invocations made by the step just taken
    inserted_log,    \* snapshots inserted since the last start, in order
    fetch_failures,  \* failed fetches so far
    stop_seen,       \* coroutines that were alive when stop_monitoring ran
    telemetry,       \* the analyzers' input: fastest_lap.get_telemetry()
    laps,            \* the analyzers' input: the lap table (session.laps)
    analysis         \* what the last analyzer call returned

\* The state of the analyzers (AdvancedF1Analyzer, F1PerformanceAnalyzer).
analyzer_vars == <<telemetry, laps, analysis>>

\* The state of the live monitor (LiveF1Monitor).
monitor_vars == <<is_monitoring, session_keys, start_time, timing_data,
                  weather_data, track_status, callbacks, pc, live_data, now,
                  heap, notified, inserted_log, fetch_failures, stop_seen>>

vars == <<is_monitoring, session_keys, start_time, timing_data, weather_data,
          track_status, callbacks, pc, live_data, now, heap, notified,
          inserted_log, fetch_failures, stop_seen, telemetry, laps, analysis>>

\* ----------------------------------------------------------------- helpers
None == [none |-> TRUE]
EmptyDict == [k \in {} |-> 0]

DictSet(d, k, v) == [x \in (DOMAIN d) \cup {k} |-> IF x = k THEN v ELSE d[x]]
DictDel(d, k) == [x \in (DOMAIN d) \ {k} |-> d[x]]
MinKey(d) == CHOOSE k \in DOMAIN d : \A j \in DOMAIN d : k <= j
MaxKey(d) == CHOOSE k \in DOMAIN d : \A j \in DOMAIN d : k >= j
Min2(a, b) == IF a <= b THEN a ELSE b
Max2(a, b) == IF a >= b THEN a ELSE b

RECURSIVE SortedKeys(_)
SortedKeys(S) ==
    IF S = {} THEN <<>>
    ELSE LET m == CHOOSE k \in S : \A j \in S : k <= j
         IN <<m>> \o SortedKeys(S \ {m})

\* Python's s[-n:]
LastPoints(s, n) ==
    LET start == IF n > 0 THEN Max2(Len(s) - n, 0) ELSE Min2(0 - n, Len(s))
    IN SubSeq(s, start + 1, Len(s))

Range(s) == {s[i] : i \in DOMAIN s}

\* ------------------------------------------------------- simulated feed
DriverNames == <<"HAM", "VER", "LEC", "RUS", "SAI", "NOR", "PER", "ALO", "OCO", "GAS">>

\* time.time() at clock value t, in seconds
Seconds(t) == t * update_interval

\* f"{int(lap_time // 60)}:{lap_time % 60:06.3f}", lap_time in tenths of a second
FormatLapTime(tenths) == <<tenths \div 600, tenths % 600>>

GenerateSimulatedTiming(t) ==
    [n \in 1..NumDrivers |->
        LET i == n - 1
            lap_time == 900 + i * 3 + (Seconds(t) % 10)
        IN [driver        |-> DriverNames[n],
            position      |-> i + 1,
            last_lap_time |-> FormatLapTime(lap_time),
            best_lap_time |-> FormatLapTime(lap_time - 5),
            gap_to_leader |-> IF i > 0 THEN i * 8 ELSE 0,
            tire_age      |-> Seconds(t) % 30]]

GenerateSimulatedWeather(t) ==
    \* in hundredths
    [air_temperature   |-> 2500 + 10 * (Seconds(t) % 100),
     track_temperature |-> 3500 + 15 * (Seconds(t) % 100),
     humidity          |-> 6000 + 20 * (Seconds(t) % 50),
     wind_speed        |-> 500 + 10 * (Seconds(t) % 20),
     rainfall          |-> 0]

GetSimulatedTrackStatus(t) ==
    LET statuses == <<"GREEN", "YELLOW", "RED", "SC", "VSC">>
    IN IF Seconds(t) % 100 < 85 THEN "GREEN"
       ELSE statuses[(Seconds(t) % Len(statuses)) + 1]

\* The dict _fetch_live_data returns at clock value t; its 'drivers' list is
\* the fresh list object ref.
FetchLiveData(t, ref) ==
    [timestamp    |-> t,
     drivers      |-> ref,
     weather      |-> GenerateSimulatedWeather(t),
     track_status |-> GetSimulatedTrackStatus(t)]

\* ------------------------------------------------ _process_live_data
\* Lines 143-154: store the snapshot under its timestamp, then drop the
\* entry with the smallest timestamp when more than the capacity are held.
\* A variant that never drops an entry:
ProcessLiveDataNoEvict(td, wd, data) ==
    [timing_data  |-> DictSet(td, data.timestamp, data.drivers),
     weather_data |-> DictSet(wd, data.timestamp, data.weather),
     track_status |-> data.track_status]

\* A variant that drops the entry with the largest timestamp.
ProcessLiveDataEvictNewest(td, wd, data) ==
    LET td1 == DictSet(td, data.timestamp, data.drivers)
        wd1 == DictSet(wd, data.timestamp, data.weather)
    IN IF Cardinality(DOMAIN td1) > MaxDataPoints
       THEN [timing_data  |-> DictDel(td1, MaxKey(td1)),
             weather_data |-> DictDel(wd1, MaxKey(td1)),
             track_status |-> data.track_status]
       ELSE [timing_data  |-> td1,
             weather_data |-> wd1,
             track_status |-> data.track_status]

\* A variant whose eviction stops half-way: the oldest timing entry is
\* deleted, the weather entry is not.
ProcessLiveDataHalfEvict(td, wd, data) ==
    LET td1 == DictSet(td, data.timestamp, data.drivers)
        wd1 == DictSet(wd, data.timestamp, data.weather)
    IN [timing_data  |-> IF Cardinality(DOMAIN td1) > MaxDataPoints
                         THEN DictDel(td1, MinKey(td1)) ELSE td1,
        weather_data |-> wd1,
        track_status |-> data.track_status]

ProcessLiveData(td, wd, data) ==
    LET td1 == DictSet(td, data.timestamp, data.drivers)
        wd1 == DictSet(wd, data.timestamp, data.weather)
    IN IF Cardinality(DOMAIN td1) > MaxDataPoints
       THEN LET oldest_key == MinKey(td1)
            IN [timing_data  |-> DictDel(td1, oldest_key),
                weather_data |-> DictDel(wd1, oldest_key),
                track_status |-> data.track_status]
       ELSE [timing_data  |-> td1,
             weather_data |-> wd1,
             track_status |-> data.track_status]

\* A snapshot from which the feed left one field out.
SnapshotFields == {"timestamp", "drivers", "weather", "track_status"}

WithoutField(data, k) == [f \in (DOMAIN data) \ {k} |-> data[f]]

\* Lines 143-148 on a snapshot with a missing field: the subscript raises
\* KeyError; the assignments before it have taken effect, the rest of the
\* method (the eviction included) is not run.
ProcessLiveDataKeyError(td, wd, status, data) ==
    LET has(k) == k \in DOMAIN data
    IN IF ~has("timestamp") \/ ~has("drivers")
       THEN [timing_data |-> td, weather_data |-> wd, track_status |-> status]
       ELSE IF ~has("weather")
       THEN [timing_data  |-> DictSet(td, data.timestamp, data.drivers),
             weather_data |-> wd,
             track_status |-> status]
       ELSE [timing_data  |-> DictSet(td, data.timestamp, data.drivers),
             weather_data |-> DictSet(wd, data.timestamp, data.weather),
             track_status |-> status]

\* list.remove: the first occurrence.
RemoveFirst(s, x) ==
    LET i == CHOOSE k \in DOMAIN s : s[k] = x /\ \A j \in DOMAIN s : s[j] = x => k <= j
    IN SubSeq(s, 1, i - 1) \o SubSeq(s, i + 1, Len(s))

\* ------------------------------------------------ _notify_callbacks
\* A variant that hands the callback the oldest retained snapshot.
InvocationOldest(cb, data, td) ==
    [cb         |-> cb,
     timestamp  |-> MinKey(td),
     in_history |-> TRUE,
     failed     |-> cb \in FailingCallbacks]

\* One invocation: what the callback saw, and whether it raised.
Invocation(cb, data, td) ==
    [cb         |-> cb,
     timestamp  |-> data.timestamp,
     in_history |-> data.timestamp \in DOMAIN td,
     failed     |-> cb \in FailingCallbacks]

\* A variant without the try/except of lines 30-33: the first exception
\* ends the iteration and propagates.
NotifyCallbacksNoCatch(cbs, data, td) ==
    LET bad == {i \in DOMAIN cbs : cbs[i] \in FailingCallbacks}
        stop == IF bad = {} THEN Len(cbs)
                ELSE CHOOSE i \in bad : \A j \in bad : i <= j
    IN [log       |-> [i \in 1..stop |-> Invocation(cbs[i], data, td)],
        callbacks |-> cbs,
        raised    |-> bad # {}]

\* A variant that walks the list backwards.
NotifyCallbacksReversed(cbs, data, td) ==
    [log       |-> [i \in 1..Len(cbs) |-> Invocation(cbs[Len(cbs) + 1 - i], data, td)],
     callbacks |-> cbs,
     raised    |-> FALSE]

\* What the callback does to self.callbacks while it runs (lines 20 and
\* 24-25, called from inside the callback).
CallbackEffect(cb, cbs) ==
    IF cb \in RemovingCallbacks
    THEN (IF cb \in Range(cbs) THEN RemoveFirst(cbs, cb) ELSE cbs)
    ELSE IF cb \in AddingCallbacks
    THEN (IF 1 \in Range(cbs) THEN cbs ELSE Append(cbs, 1))
    ELSE cbs

\* The for statement of line 29 walks self.callbacks itself, by position:
\* each round tests the position against the current length and takes the
\* entry now at that position.
RECURSIVE NotifyFrom(_, _, _, _, _)
NotifyFrom(cbs, i, data, td, log) ==
    IF i > Len(cbs)
    THEN [log |-> log, callbacks |-> cbs, raised |-> FALSE]
    ELSE NotifyFrom(CallbackEffect(cbs[i], cbs), i + 1, data, td,
                    Append(log, Invocation(cbs[i], data, td)))

\* Lines 29-33: every list entry in order, each exception caught.
NotifyCallbacks(cbs, data, td) == NotifyFrom(cbs, 1, data, td, <<>>)

\* ------------------------------------------------ queries
\* get_current_standings, lines 163-167: a fresh empty list, or the stored
\* list itself (its reference).  Line 163 looks 'timing_data' up in
\* session_data, which is the {} of __init__ until start_monitoring
\* replaces it: the lookup then raises KeyError.
GetCurrentStandings ==
    IF ~session_keys THEN [kind |-> "KeyError", key |-> "timing_data"]
    ELSE IF DOMAIN timing_data = {} THEN [kind |-> "value", value |-> <<>>]
    ELSE [kind |-> "ref", ref |-> timing_data[MaxKey(timing_data)]]

\* get_driver_history, lines 171-193: fresh lists of scalars.
DriverHistory(driver, data_points) ==
    LET timestamps == LastPoints(SortedKeys(DOMAIN timing_data), data_points)
        hits == SelectSeq(timestamps,
                    LAMBDA ts : \E i \in DOMAIN heap[timing_data[ts]] :
                                    heap[timing_data[ts]][i].driver = driver)
        Row(ts) == LET lst == heap[timing_data[ts]]
                       i == CHOOSE k \in DOMAIN lst :
                                /\ lst[k].driver = driver
                                /\ \A j \in DOMAIN lst : lst[j].driver = driver => k <= j
                   IN lst[i]
    IN [timestamps |-> hits,
        lap_times  |-> [k \in DOMAIN hits |-> Row(hits[k]).last_lap_time],
        positions  |-> [k \in DOMAIN hits |-> Row(hits[k]).position],
        gaps       |-> [k \in DOMAIN hits |-> Row(hits[k]).gap_to_leader],
        tire_ages  |-> [k \in DOMAIN hits |-> Row(hits[k]).tire_age]]

\* get_weather_history, lines 197-217.
WeatherHistory(data_points) ==
    LET timestamps == LastPoints(SortedKeys(DOMAIN weather_data), data_points)
    IN [timestamps |-> timestamps,
        air_temp   |-> [k \in DOMAIN timestamps |-> weather_data[timestamps[k]].air_temperature],
        track_temp |-> [k \in DOMAIN timestamps |-> weather_data[timestamps[k]].track_temperature],
        humidity   |-> [k \in DOMAIN timestamps |-> weather_data[timestamps[k]].humidity],
        wind_speed |-> [k \in DOMAIN timestamps |-> weather_data[timestamps[k]].wind_speed],
        rainfall   |-> [k \in DOMAIN timestamps |-> weather_data[timestamps[k]].rainfall]]

\* Order of two formatted lap times as strings: the minutes are one digit
\* and the seconds zero-padded in every simulated lap time, so the strings
\* compare as the pairs do.
LapTimeLess(a, b) == a[1] < b[1] \/ (a[1] = b[1] /\ a[2] < b[2])

\* get_session_statistics, lines 221-234.
SessionStatistics ==
    IF DOMAIN timing_data = {} THEN EmptyDict
    ELSE LET latest_data == heap[timing_data[MaxKey(timing_data)]]
             best == {latest_data[i].best_lap_time : i \in DOMAIN latest_data}
         IN [session_duration |-> Seconds(now - start_time),
             total_updates    |-> Cardinality(DOMAIN timing_data),
             current_leader   |-> IF Len(latest_data) > 0 THEN latest_data[1].driver
                                  ELSE "None",
             fastest_lap      |-> IF Len(latest_data) > 0
                                  THEN CHOOSE x \in best :
                                        \A y \in best : ~LapTimeLess(y, x)
                                  ELSE <<>>,
             total_drivers    |-> Len(latest_data)]

\* ------------------------------------------------ object reachability
\* List objects still referenced by the history or by a loop's local.
Reachable(td, ld) ==
    {td[k] : k \in DOMAIN td}
        \cup {ld[l].drivers : l \in {x \in Loops : "drivers" \in DOMAIN ld[x]}}

Collect(hp, td, ld) == [r \in (DOMAIN hp) \cap Reachable(td, ld) |-> hp[r]]

\* ------------------------------------------------------------------- Init
\* __init__, lines 13-16; no coroutine exists yet.
InitMonitor ==
    /\ is_monitoring = FALSE
    /\ session_keys = FALSE
    /\ start_time = 0
    /\ timing_data = EmptyDict
    /\ weather_data = EmptyDict
    /\ track_status = "GREEN"
    /\ callbacks = <<>>
    /\ pc = [l \in Loops |-> "idle"]
    /\ live_data = [l \in Loops |-> None]
    /\ now = 0
    /\ heap = EmptyDict
    /\ notified = <<>>
    /\ inserted_log = <<>>
    /\ fetch_failures = 0
    /\ stop_seen = {}

\* The monitor on its own: the analyzers hold no session data.
Init ==
    /\ InitMonitor
    /\ telemetry = <<>>
    /\ laps = <<>>
    /\ analysis = [kind |-> "none"]

\* ---------------------------------------------------------------- actions
\* add_callback, line 20.
AddCallback(cb) ==
    /\ UNCHANGED analyzer_vars
    /\ Len(callbacks) < MaxCallbacks
    /\ callbacks' = Append(callbacks, cb)
    /\ notified' = <<>>
    /\ UNCHANGED <<is_monitoring, session_keys, start_time, timing_data,
                   weather_data, track_status, pc, live_data, now, heap,
                   inserted_log, fetch_failures, stop_seen>>

\* remove_callback, lines 24-25.
RemoveCallback(cb) ==
    /\ UNCHANGED analyzer_vars
    /\ callbacks' = IF cb \in Range(callbacks) THEN RemoveFirst(callbacks, cb)
                    ELSE callbacks
    /\ notified' = <<>>
    /\ UNCHANGED <<is_monitoring, session_keys, start_time, timing_data,
                   weather_data, track_status, pc, live_data, now, heap,
                   inserted_log, fetch_failures, stop_seen>>

\* start_monitoring, lines 37-52: set the flag, replace session_data, enter
\* the loop (the flag was just set) and wait for the first fetch.
StartMonitoring(l) ==
    /\ UNCHANGED analyzer_vars
    /\ pc[l] = "idle"
    /\ \A k \in Loops : k < l => pc[k] # "idle"
    /\ is_monitoring' = TRUE
    /\ session_keys' = TRUE
    /\ start_time' = now
    /\ timing_data' = EmptyDict
    /\ weather_data' = EmptyDict
    /\ track_status' = "GREEN"
    /\ pc' = [pc EXCEPT ![l] = "fetch"]
    /\ heap' = Collect(heap, timing_data', live_data)
    /\ inserted_log' = <<>>
    /\ notified' = <<>>
    /\ UNCHANGED <<callbacks, live_data, now, fetch_failures, stop_seen>>

\* `if live_data:` (line 54)
ShouldProcessAlways(data) == TRUE

ShouldProcess(data) == data # None

\* Lines 60-63: an exception leaves the loop; finally clears the flag.
LoopExits(l) ==
    /\ is_monitoring' = FALSE
    /\ pc' = [pc EXCEPT ![l] = "done"]

\* Lines 52-58: the fetch returns; a snapshot is stored and fanned out, a
\* failure (None) is skipped; then the loop sleeps.
FetchReturns(l) ==
    /\ UNCHANGED analyzer_vars
    /\ pc[l] = "fetch"
    /\ \E ok \in BOOLEAN :
        LET ref == <<l, now>>
            data == IF ok THEN FetchLiveData(now, ref) ELSE None
            heap1 == IF ok THEN DictSet(heap, ref, GenerateSimulatedTiming(now))
                     ELSE heap
        IN /\ ~ok => fetch_failures < MaxFetchFailures
           /\ fetch_failures' = IF ok THEN fetch_failures ELSE fetch_failures + 1
           /\ live_data' = [live_data EXCEPT ![l] = data]
           /\ IF ~ShouldProcess(data)
              THEN /\ pc' = [pc EXCEPT ![l] = "sleep"]
                   /\ heap' = Collect(heap1, timing_data, live_data')
                   /\ notified' = <<>>
                   /\ UNCHANGED <<is_monitoring, timing_data, weather_data,
                                  track_status, inserted_log, callbacks>>
              ELSE IF data = None
              THEN \* data['timestamp'] on None raises
                   /\ LoopExits(l)
                   /\ heap' = Collect(heap1, timing_data, live_data')
                   /\ notified' = <<>>
                   /\ UNCHANGED <<timing_data, weather_data, track_status,
                                  inserted_log, callbacks>>
              ELSE LET sd == ProcessLiveData(timing_data, weather_data, data)
                       res == NotifyCallbacks(callbacks, data, sd.timing_data)
                   IN /\ timing_data' = sd.timing_data
                      /\ weather_data' = sd.weather_data
                      /\ track_status' = sd.track_status
                      /\ inserted_log' = Append(inserted_log,
                                [timestamp |-> data.timestamp, ref |-> data.drivers])
                      /\ notified' = res.log
                      /\ callbacks' = res.callbacks
                      /\ heap' = Collect(heap1, timing_data', live_data')
                      /\ IF res.raised THEN LoopExits(l)
                         ELSE /\ pc' = [pc EXCEPT ![l] = "sleep"]
                              /\ UNCHANGED is_monitoring
    /\ UNCHANGED <<session_keys, start_time, now, stop_seen>>

\* Lines 52-63 when the feed hands over a snapshot that lacks a field: it
\* is truthy (line 54), _process_live_data raises KeyError part-way, no
\* callback is notified, and the except/finally of lines 60-63 end the
\* loop.
FetchReturnsMalformed(l) ==
    /\ UNCHANGED analyzer_vars
    /\ pc[l] = "fetch"
    /\ \E missing \in SnapshotFields :
        LET ref == <<l, now>>
            data == WithoutField(FetchLiveData(now, ref), missing)
            heap1 == IF missing # "drivers"
                     THEN DictSet(heap, ref, GenerateSimulatedTiming(now))
                     ELSE heap
            sd == ProcessLiveDataKeyError(timing_data, weather_data,
                                          track_status, data)
        IN /\ live_data' = [live_data EXCEPT ![l] = data]
           /\ timing_data' = sd.timing_data
           /\ weather_data' = sd.weather_data
           /\ track_status' = sd.track_status
           /\ inserted_log' = IF sd.timing_data # timing_data
                              THEN Append(inserted_log,
                                     [timestamp |-> data.timestamp, ref |-> data.drivers])
                              ELSE inserted_log
           /\ heap' = Collect(heap1, timing_data', live_data')
    /\ LoopExits(l)
    /\ notified' = <<>>
    /\ UNCHANGED <<session_keys, start_time, callbacks, now, fetch_failures,
                   stop_seen>>

\* Line 58 returns and line 50 tests the flag: fetch again, or leave the
\* loop through finally (line 63).  The local live_data is not read again
\* before line 52 assigns it, so it is dropped here.  The clock is explored
\* up to `limit`.
SleepReturns(l, limit) ==
    /\ UNCHANGED analyzer_vars
    /\ pc[l] = "sleep"
    /\ now < limit
    /\ now' = now + 1
    /\ IF is_monitoring
       THEN /\ pc' = [pc EXCEPT ![l] = "fetch"]
            /\ UNCHANGED is_monitoring
       ELSE LoopExits(l)
    /\ live_data' = [live_data EXCEPT ![l] = None]
    /\ notified' = <<>>
    /\ heap' = Collect(heap, timing_data, live_data')
    /\ UNCHANGED <<session_keys, start_time, timing_data, weather_data,
                   track_status, callbacks, inserted_log, fetch_failures,
                   stop_seen>>

\* datetime.now() (line 73) reads the local wall clock, which can be set
\* back between two polls (end of daylight saving time, a clock
\* adjustment).  The explored runs set it back until a snapshot has been
\* stored out of order.
ClockSetBack ==
    /\ UNCHANGED analyzer_vars
    /\ now > 0
    /\ \A i \in 1..(Len(inserted_log) - 1) :
            inserted_log[i].timestamp < inserted_log[i + 1].timestamp
    /\ now' = now - 1
    /\ notified' = <<>>
    /\ UNCHANGED <<is_monitoring, session_keys, start_time, timing_data,
                   weather_data, track_status, callbacks, pc, live_data, heap,
                   inserted_log, fetch_failures, stop_seen>>

\* A variant that flips the flag.
StopMonitoringToggle ==
    /\ UNCHANGED analyzer_vars
    /\ is_monitoring' = ~is_monitoring
    /\ stop_seen' = IF is_monitoring
                    THEN stop_seen \cup {l \in Loops : pc[l] \in {"fetch", "sleep"}}
                    ELSE stop_seen
    /\ notified' = <<>>
    /\ UNCHANGED <<session_keys, start_time, timing_data, weather_data,
                   track_status, callbacks, pc, live_data, now, heap,
                   inserted_log, fetch_failures>>

\* stop_monitoring, line 158.
StopMonitoring ==
    /\ UNCHANGED analyzer_vars
    /\ is_monitoring' = FALSE
    /\ stop_seen' = IF is_monitoring
                    THEN stop_seen \cup {l \in Loops : pc[l] \in {"fetch", "sleep"}}
                    ELSE stop_seen
    /\ notified' = <<>>
    /\ UNCHANGED <<session_keys, start_time, timing_data, weather_data,
                   track_status, callbacks, pc, live_data, now, heap,
                   inserted_log, fetch_failures>>

\* A caller takes what get_current_standings returns and empties it
\* (list.clear()).  A returned reference is the stored object; a returned
\* value is the caller's own.
MutateCurrentStandings ==
    /\ UNCHANGED analyzer_vars
    /\ session_keys
    /\ LET got == GetCurrentStandings
       IN /\ got.kind = "ref"
          /\ heap[got.ref] # <<>>
          /\ Cardinality({r \in DOMAIN heap : heap[r] = <<>>}) < MaxMutatedLists
          /\ heap' = [heap EXCEPT ![got.ref] = <<>>]
    /\ notified' = <<>>
    /\ UNCHANGED <<is_monitoring, session_keys, start_time, timing_data,
                   weather_data, track_status, callbacks, pc, live_data, now,
                   inserted_log, fetch_failures, stop_seen>>

\* Every operation, interleaved at the await points.
Next ==
    \/ \E cb \in Callbacks : AddCallback(cb)
    \/ \E cb \in Callbacks : RemoveCallback(cb)
    \/ \E l \in Loops : StartMonitoring(l)
    \/ \E l \in Loops : FetchReturns(l)
    \/ \E l \in Loops : SleepReturns(l, ShortTime)
    \/ StopMonitoring
    \/ MutateCurrentStandings

Spec == Init /\ [][Next]_vars

\* One start_monitoring call polling on its own, with subscribers added
\* beforehand or along the way, until it is stopped.
NextPolling ==
    \/ \E cb \in Callbacks : AddCallback(cb)
    \/ StartMonitoring(1)
    \/ FetchReturns(1)
    \/ SleepReturns(1, MaxTime)
    \/ StopMonitoring

SpecPolling == Init /\ [][NextPolling]_vars

\* One polling loop whose subscribers may call add_callback and
\* remove_callback from inside their own notification.
NextReentrant ==
    \/ \E cb \in Callbacks \cup ReentrantCallbacks : AddCallback(cb)
    \/ \E cb \in Callbacks \cup ReentrantCallbacks : RemoveCallback(cb)
    \/ StartMonitoring(1)
    \/ FetchReturns(1)
    \/ SleepReturns(1, ShortTime)
    \/ StopMonitoring

SpecReentrant == Init /\ [][NextReentrant]_vars

\* One polling loop whose wall clock may be set back.
NextClock ==
    \/ StartMonitoring(1)
    \/ FetchReturns(1)
    \/ SleepReturns(1, MaxTime)
    \/ StopMonitoring
    \/ ClockSetBack

SpecClock == Init /\ [][NextClock]_vars

\* One polling loop on a feed that may hand over snapshots with a field
\* missing.
NextFeed ==
    \/ \E cb \in Callbacks : AddCallback(cb)
    \/ StartMonitoring(1)
    \/ FetchReturns(1)
    \/ FetchReturnsMalformed(1)
    \/ SleepReturns(1, MaxTime)
    \/ StopMonitoring

SpecFeed == Init /\ [][NextFeed]_vars

\* =================================================================
\* Telemetry detectors (advanced_analyzer.py)
\* =================================================================
\* Telemetry is a table with one row per sample; rows are numbered from 0
\* as pandas numbers them.
Speed(tel, i) == tel[i + 1].Speed
Brake(tel, i) == tel[i + 1].Brake
Distance(tel, i) == tel[i + 1].Distance

SetMin(S) == CHOOSE x \in S : \A y \in S : x <= y
SetMax(S) == CHOOSE x \in S : \A y \in S : y <= x

\* Speed values that give differences on both sides of the two corner
\* thresholds (-10 and 5) and on the thresholds themselves; brake values
\* on the threshold and above it.
Speeds == {80, 85, 95, 110}
Brakes == {50, 51, 100}

\* The traces explored: the speed varies with the brake released, or the
\* brake pressure varies at constant speed.  Distance grows by SampleSpacing
\* per sample.
SpeedTraces(n) ==
    {[i \in 1..n |-> [Speed |-> f[i], Brake |-> 0,
                      Distance |-> SampleSpacing * (i - 1)]] :
        f \in [1..n -> Speeds]}

BrakeTraces(n) ==
    {[i \in 1..n |-> [Speed |-> 110, Brake |-> f[i],
                      Distance |-> SampleSpacing * (i - 1)]] :
        f \in [1..n -> Brakes]}

TelemetryInputs == UNION {SpeedTraces(n) \cup BrakeTraces(n) : n \in 0..MaxSamples}

\* ------------------------------------- analyze_cornering_performance
\* telemetry['Speed'].diff() (line 149): position 0 holds NaN, and every
\* comparison with NaN is False; position i > 0 holds Speed[i] - Speed[i-1].
DiffBelow(tel, i, x) == i > 0 /\ Speed(tel, i) - Speed(tel, i - 1) < x
DiffAbove(tel, i, x) == i > 0 /\ Speed(tel, i) - Speed(tel, i - 1) > x

\* A variant whose minimum leaves the entry sample out and takes the exit
\* sample in.
CornerEventSkipEntry(tel, corner_start, i) ==
    [start       |-> corner_start,
     end         |-> i,
     min_speed   |-> SetMin({Speed(tel, j) : j \in (corner_start + 1)..i}),
     entry_speed |-> Speed(tel, corner_start),
     exit_speed  |-> Speed(tel, i),
     distance    |-> Distance(tel, corner_start)]

\* The dict appended at lines 160-167; Speed[a:b] is rows a .. b-1.
CornerEvent(tel, corner_start, i) ==
    [start       |-> corner_start,
     end         |-> i,
     min_speed   |-> SetMin({Speed(tel, j) : j \in corner_start..(i - 1)}),
     entry_speed |-> Speed(tel, corner_start),
     exit_speed  |-> Speed(tel, i),
     distance    |-> Distance(tel, corner_start)]

\* A variant without the in_corner latch: every sample that decelerates
\* enough opens an event of its own, closed at the next acceleration.
RECURSIVE CornersNoLatchFrom(_, _)
CornersNoLatchFrom(tel, i) ==
    IF i >= Len(tel) THEN <<>>
    ELSE LET exits == {j \in (i + 1)..(Len(tel) - 1) : DiffAbove(tel, j, 5)}
         IN (IF DiffBelow(tel, i, -10) /\ exits # {}
             THEN <<CornerEvent(tel, i, SetMin(exits))>>
             ELSE <<>>) \o CornersNoLatchFrom(tel, i + 1)

DetectCornersNoLatch(tel) == CornersNoLatchFrom(tel, 0)

\* A variant in which every further deceleration inside a corner moves
\* its start.
RECURSIVE CornerScanRestart(_, _, _, _, _)
CornerScanRestart(tel, i, in_corner, corner_start, corners) ==
    IF i >= Len(tel) THEN corners
    ELSE IF DiffBelow(tel, i, -10)
    THEN CornerScanRestart(tel, i + 1, TRUE, i, corners)
    ELSE IF DiffAbove(tel, i, 5) /\ in_corner
    THEN CornerScanRestart(tel, i + 1, FALSE, corner_start,
                           Append(corners, CornerEvent(tel, corner_start, i)))
    ELSE CornerScanRestart(tel, i + 1, in_corner, corner_start, corners)

\* The loop of lines 155-169 from row i on.  corner_start is -1 where the
\* code holds None.
RECURSIVE CornerScan(_, _, _, _, _)
CornerScan(tel, i, in_corner, corner_start, corners) ==
    IF i >= Len(tel) THEN corners
    ELSE IF DiffBelow(tel, i, -10) /\ ~in_corner
    THEN CornerScan(tel, i + 1, TRUE, i, corners)
    ELSE IF DiffAbove(tel, i, 5) /\ in_corner
    THEN CornerScan(tel, i + 1, FALSE, corner_start,
                    IF corner_start # -1
                    THEN Append(corners, CornerEvent(tel, corner_start, i))
                    ELSE corners)
    ELSE CornerScan(tel, i + 1, in_corner, corner_start, corners)

\* Lines 150-169.
DetectCorners(tel) == CornerScan(tel, 0, FALSE, -1, <<>>)

\* ------------------------------------------- analyze_braking_points
\* A variant that reports the lowest pressure of the zone.
BrakingEventMinPressure(tel, brake_start, i) ==
    [start_distance     |-> Distance(tel, brake_start),
     end_distance       |-> Distance(tel, i),
     start_speed        |-> Speed(tel, brake_start),
     end_speed          |-> Speed(tel, i),
     max_brake_pressure |-> SetMin({Brake(tel, j) : j \in brake_start..(i - 1)}),
     braking_distance   |-> Distance(tel, i) - Distance(tel, brake_start)]

\* The dict appended at lines 433-440; Brake[a:b] is rows a .. b-1.
BrakingEvent(tel, brake_start, i) ==
    [start_distance     |-> Distance(tel, brake_start),
     end_distance       |-> Distance(tel, i),
     start_speed        |-> Speed(tel, brake_start),
     end_speed          |-> Speed(tel, i),
     max_brake_pressure |-> SetMax({Brake(tel, j) : j \in brake_start..(i - 1)}),
     braking_distance   |-> Distance(tel, i) - Distance(tel, brake_start)]

\* The loop of lines 428-442 from row i on.  brake_start is -1 where the
\* code holds None.
RECURSIVE BrakeScan(_, _, _, _, _)
BrakeScan(tel, i, in_braking, brake_start, braking_zones) ==
    IF i >= Len(tel)
    THEN [braking_zones |-> braking_zones, in_braking |-> in_braking,
          brake_start |-> brake_start]
    ELSE IF Brake(tel, i) > brake_threshold /\ ~in_braking
    THEN BrakeScan(tel, i + 1, TRUE, i, braking_zones)
    ELSE IF Brake(tel, i) <= brake_threshold /\ in_braking
    THEN BrakeScan(tel, i + 1, FALSE, brake_start,
                   IF brake_start # -1
                   THEN Append(braking_zones, BrakingEvent(tel, brake_start, i))
                   ELSE braking_zones)
    ELSE BrakeScan(tel, i + 1, in_braking, brake_start, braking_zones)

\* A variant that closes a zone still open at the end of the trace on the
\* last sample.
DetectBrakingZonesFlushOpen(tel) ==
    LET r == BrakeScan(tel, 0, FALSE, -1, <<>>)
        last == Len(tel) - 1
    IN IF r.in_braking
       THEN Append(r.braking_zones,
              [start_distance     |-> Distance(tel, r.brake_start),
               end_distance       |-> Distance(tel, last),
               start_speed        |-> Speed(tel, r.brake_start),
               end_speed          |-> Speed(tel, last),
               max_brake_pressure |-> SetMax({Brake(tel, j) : j \in r.brake_start..last}),
               braking_distance   |-> Distance(tel, last) - Distance(tel, r.brake_start)])
       ELSE r.braking_zones

\* Lines 422-442.
DetectBrakingZones(tel) == BrakeScan(tel, 0, FALSE, -1, <<>>).braking_zones

\* ---------------------------------------------------- analyzer calls
\* analyze_cornering_performance on a loaded session, lines 145-176.
AnalyzeCorneringPerformance ==
    /\ analysis' = [kind          |-> "cornering",
                    corners       |-> DetectCorners(telemetry),
                    total_corners |-> Len(DetectCorners(telemetry))]
    /\ UNCHANGED <<monitor_vars, telemetry, laps>>

\* analyze_braking_points on a loaded session, lines 417-449.
AnalyzeBrakingPoints ==
    /\ analysis' = [kind                |-> "braking",
                    braking_zones       |-> DetectBrakingZones(telemetry),
                    total_braking_zones |-> Len(DetectBrakingZones(telemetry))]
    /\ UNCHANGED <<monitor_vars, telemetry, laps>>

\* A session whose fastest lap has any of the explored traces.
InitTelemetry ==
    /\ InitMonitor
    /\ telemetry \in TelemetryInputs
    /\ laps = <<>>
    /\ analysis = [kind |-> "none"]

NextTelemetry ==
    \/ AnalyzeCorneringPerformance
    \/ AnalyzeBrakingPoints

SpecTelemetry == InitTelemetry /\ [][NextTelemetry]_vars

\* =================================================================
\* Lap statistics (advanced_analyzer.py, main.py)
\* =================================================================
\* The lap table has one row per lap: Driver, LapNumber, LapTime in whole
\* seconds, Compound.  An absent LapTime (pandas NaT) is written NaT.
NaT == -1

\* Fractions stand for the floats the code computes; nan is float('nan').
Frac(num, den) == [kind |-> "float", num |-> num, den |-> den]
Zero == Frac(0, 1)
NaN == [kind |-> "nan"]
FloatEq(a, b) ==
    a.kind = "float" /\ b.kind = "float" /\ a.num * b.den = b.num * a.den

RECURSIVE SumSeq(_)
SumSeq(s) == IF s = <<>> THEN 0 ELSE Head(s) + SumSeq(Tail(s))

\* Series.unique(): the values in order of first appearance.
RECURSIVE Unique(_)
Unique(s) ==
    IF s = <<>> THEN <<>>
    ELSE LET rest == Unique(SubSeq(s, 1, Len(s) - 1))
             x == s[Len(s)]
         IN IF x \in Range(rest) THEN rest ELSE Append(rest, x)

Column(tbl, col) == [i \in 1..Len(tbl) |-> tbl[i][col]]

\* laps[laps['Driver'] == driver]
DriverLaps(tbl, driver) ==
    LET Test(r) == r.Driver = driver IN SelectSeq(tbl, Test)

\* laps[laps['Compound'] == compound]
CompoundLaps(tbl, compound) ==
    LET Test(r) == r.Compound = compound IN SelectSeq(tbl, Test)

\* A variant that drops nothing.
DropNaKeepAll(tbl) == tbl

\* dropna(subset=['LapTime'])
DropNa(tbl) ==
    LET Test(r) == r.LapTime # NaT IN SelectSeq(tbl, Test)

LessOrEqual(a, b) == a <= b
Sorted(s) == SortSeq(s, LessOrEqual)

\* ------------------------------------------ generate_race_pace_analysis
\* Series.quantile(k/4) with linear interpolation, times 4: the position
\* k(n-1)/4 in the sorted values, interpolated between its neighbours.
Quantile4(values, k) ==
    LET sorted == Sorted(values)
        pos4 == k * (Len(values) - 1)
        lo == pos4 \div 4
        r == pos4 % 4
    IN IF r = 0 THEN 4 * sorted[lo + 1]
       ELSE 4 * sorted[lo + 1] + r * (sorted[lo + 2] - sorted[lo + 1])

\* A variant with strict comparisons.
IsCleanLapStrict(t, q1x4, q3x4) ==
    /\ 8 * t > 2 * q1x4 - 3 * (q3x4 - q1x4)
    /\ 8 * t < 2 * q3x4 + 3 * (q3x4 - q1x4)

\* Line 318: Q1 - 1.5 IQR <= t <= Q3 + 1.5 IQR, with Q1 and Q3 given times
\* 4 and both sides multiplied by 8.
IsCleanLap(t, q1x4, q3x4) ==
    /\ 8 * t >= 2 * q1x4 - 3 * (q3x4 - q1x4)
    /\ 8 * t <= 2 * q3x4 + 3 * (q3x4 - q1x4)

\* Series.mean() and the square of Series.std() (the sample variance; nan
\* for fewer than two values).
Mean(values) ==
    IF values = <<>> THEN NaN ELSE Frac(SumSeq(values), Len(values))

Variance(values) ==
    LET n == Len(values)
        sq == [i \in 1..n |-> values[i] * values[i]]
    IN IF n < 2 THEN NaN
       ELSE Frac(n * SumSeq(sq) - SumSeq(values) * SumSeq(values), n * (n - 1))

\* Lines 305-327 for one driver: the entry of pace_analysis.
DriverPace(driver_laps) ==
    LET lap_times == Column(driver_laps, "LapTime")
        Q1 == Quantile4(lap_times, 1)
        Q3 == Quantile4(lap_times, 3)
        Clean(t) == IsCleanLap(t, Q1, Q3)
        clean_times == SelectSeq(lap_times, Clean)
    IN [average_pace   |-> Mean(clean_times),
        consistency_sq |-> Variance(clean_times),
        fastest_lap    |-> SetMin(Range(lap_times)),
        total_laps     |-> Len(driver_laps),
        clean_laps     |-> Len(clean_times)]

\* Lines 300-329: the drivers with at least five valid laps.
RacePaceAnalysis(tbl) ==
    LET Valid(d) == DropNa(DriverLaps(tbl, d))
        drivers == {d \in Range(Column(tbl, "Driver")) : Len(Valid(d)) >= 5}
    IN [d \in drivers |-> DriverPace(Valid(d))]

\* ---------------------------------------- analyze_pit_stop_performance
\* A variant that takes the fastest lap as the reference, times 2.
Median2Fastest(values) == 2 * Sorted(values)[1]

\* Series.median(), times 2: the middle value, or the sum of the two
\* middle values.
Median2(values) ==
    LET sorted == Sorted(values)
        n == Len(values)
    IN IF n % 2 = 1 THEN 2 * sorted[(n + 1) \div 2]
       ELSE sorted[n \div 2] + sorted[n \div 2 + 1]

\* A variant that also reports a lap exactly on the threshold.
IsPitStopLoose(lap_time, median2) == 4 * lap_time >= 3 * median2

\* Line 278: lap_time > median_time * 1.5, with the median given times 2.
IsPitStop(lap_time, median2) == 4 * lap_time > 3 * median2

\* Lines 279-285: the dict appended for one lap.
PitStopEvent(driver_laps, lap, median2) ==
    LET Before(r) == r.LapNumber = lap.LapNumber - 1
        before == SelectSeq(driver_laps, Before)
    IN [driver          |-> lap.Driver,
        lap_number      |-> lap.LapNumber,
        pit_time        |-> Frac(2 * lap.LapTime - median2, 2),
        compound_before |-> IF Len(before) > 0 THEN before[1].Compound ELSE "None",
        compound_after  |-> lap.Compound]

\* Lines 265-286 for one driver.
DriverPitStops(tbl, driver) ==
    LET driver_laps == DropNa(DriverLaps(tbl, driver))
        median2 == Median2(Column(driver_laps, "LapTime"))
        Slow(r) == IsPitStop(r.LapTime, median2)
        slow == SelectSeq(driver_laps, Slow)
    IN IF Len(driver_laps) < 3 THEN <<>>
       ELSE [i \in 1..Len(slow) |-> PitStopEvent(driver_laps, slow[i], median2)]

RECURSIVE PitStopsOf(_, _)
PitStopsOf(tbl, drivers) ==
    IF drivers = <<>> THEN <<>>
    ELSE DriverPitStops(tbl, Head(drivers)) \o PitStopsOf(tbl, Tail(drivers))

\* Lines 260-288.
PitStopPerformance(tbl) == PitStopsOf(tbl, Unique(Column(tbl, "Driver")))

\* ------------------------------------------------ _calculate_degradation
\* np.polyfit(lap_numbers, lap_times, 1)[0]: the least-squares slope.  With
\* a nan among the lap times the fit has no finite answer.
Polyfit(driver_laps) ==
    LET n == Len(driver_laps)
        x == Column(driver_laps, "LapNumber")
        y == Column(driver_laps, "LapTime")
        xy == [i \in 1..n |-> x[i] * y[i]]
        xx == [i \in 1..n |-> x[i] * x[i]]
    IN IF NaT \in Range(y) THEN NaN
       ELSE Frac(n * SumSeq(xy) - SumSeq(x) * SumSeq(y),
                 n * SumSeq(xx) - SumSeq(x) * SumSeq(x))

\* np.mean of a list of floats.
RECURSIVE FracSum(_)
FracSum(fs) ==
    IF fs = <<>> THEN Zero
    ELSE LET a == Head(fs)
             b == FracSum(Tail(fs))
         IN Frac(a.num * b.den + b.num * a.den, a.den * b.den)

NpMean(fs) ==
    IF \E i \in DOMAIN fs : fs[i].kind = "nan" THEN NaN
    ELSE LET total == FracSum(fs) IN Frac(total.num, total.den * Len(fs))

\* Lines 137-154.  polyfit_nan says what np.polyfit does with a nan among
\* its inputs, which depends on the build of the linear-algebra library:
\* it raises LinAlgError (caught by the bare except of line 153) or it
\* returns nan.
CalculateDegradation(tbl, polyfit_nan) ==
    LET AtLeast3(d) == Len(DriverLaps(tbl, d)) >= 3
        qualifying == SelectSeq(Unique(Column(tbl, "Driver")), AtLeast3)
        degradation_rates ==
            [i \in 1..Len(qualifying) |-> Polyfit(DriverLaps(tbl, qualifying[i]))]
    IN IF Len(tbl) < 3 THEN Zero
       ELSE IF polyfit_nan = "LinAlgError"
               /\ \E i \in DOMAIN degradation_rates : degradation_rates[i].kind = "nan"
       THEN Zero
       ELSE IF degradation_rates = <<>> THEN Zero
       ELSE NpMean(degradation_rates)

\* analyze_tire_performance, lines 117-128: one entry per compound.
\* DataFrame mean and min skip NaT.
TirePerformance(tbl, polyfit_nan) ==
    [c \in Range(Column(tbl, "Compound")) |->
        LET compound_laps == CompoundLaps(tbl, c)
            valid == Column(DropNa(compound_laps), "LapTime")
        IN [average_lap_time    |-> Mean(valid),
            fastest_lap_time    |-> IF valid = <<>> THEN NaT ELSE SetMin(Range(valid)),
            total_laps          |-> Len(compound_laps),
            average_degradation |-> CalculateDegradation(compound_laps, polyfit_nan)]]

\* ------------------------------------------------------ lap tables
\* One driver's laps 1..n with the given lap times, on SOFT tyres except
\* for lap `hard` (0: none), which is on HARD tyres.
LapTable(driver, times, hard) ==
    [i \in 1..Len(times) |->
        [Driver    |-> driver,
         LapNumber |-> i,
         LapTime   |-> times[i],
         Compound  |-> IF i = hard THEN "HARD" ELSE "SOFT"]]

\* Lap times around a pit stop: a usual lap, a lap exactly 1.5 times as
\* long, a longer one.
PaceTimes == {90, 135, 140}
\* Lap times of a stint that degrades by a second per lap.
StintTimes == {80, 81, 82, 83}
\* What a second driver adds to the table: nothing, a rising stint or a
\* falling stint.
OtherStints == {<<>>, <<80, 81, 82>>, <<82, 81, 80>>}

\* The tables explored for the pace and pit-stop statistics: one driver,
\* up to MaxLaps laps, each lap time usual, long or absent.
IsPaceTable(tbl) ==
    \E n \in 0..MaxLaps :
        \E t \in [1..n -> PaceTimes \cup {NaT}] : tbl = LapTable("HAM", t, 0)

\* The tables explored for the degradation: up to MaxStintLaps laps of one
\* driver, at most one of them on the other compound, and the stint of a
\* second driver.
IsStintTable(tbl) ==
    \E n \in 0..MaxStintLaps :
        \E t \in [1..n -> StintTimes \cup {NaT}] :
            \E hard \in 0..n :
                \E other \in OtherStints :
                    tbl = LapTable("HAM", t, hard) \o LapTable("VER", other, 0)

\* ---------------------------------------------------- analyzer calls
\* generate_race_pace_analysis on a loaded session.
GenerateRacePaceAnalysis ==
    /\ analysis' = [kind |-> "pace", pace_analysis |-> RacePaceAnalysis(laps)]
    /\ UNCHANGED <<monitor_vars, telemetry, laps>>

\* analyze_pit_stop_performance on a loaded session.
AnalyzePitStopPerformance ==
    /\ analysis' = [kind |-> "pit_stops", pit_stops |-> PitStopPerformance(laps)]
    /\ UNCHANGED <<monitor_vars, telemetry, laps>>

\* analyze_tire_performance on a loaded session.
AnalyzeTirePerformance ==
    /\ \E polyfit_nan \in {"LinAlgError", "nan"} :
        analysis' = [kind |-> "tire",
                     tire_analysis |-> TirePerformance(laps, polyfit_nan)]
    /\ UNCHANGED <<monitor_vars, telemetry, laps>>

\* A session with any of the explored lap tables.
InitLaps ==
    /\ InitMonitor
    /\ telemetry = <<>>
    /\ IsPaceTable(laps) \/ IsStintTable(laps)
    /\ analysis = [kind |-> "none"]

NextLaps ==
    \/ GenerateRacePaceAnalysis
    \/ AnalyzePitStopPerformance
    \/ AnalyzeTirePerformance

SpecLaps == InitLaps /\ [][NextLaps]_vars

\* =================================================================
\* Properties
\* =================================================================
N == MaxDataPoints

\* The snapshots inserted since the last start carry strictly increasing
\* timestamps.
Increasing(log) ==
    \A i, j \in DOMAIN log : i < j => log[i].timestamp < log[j].timestamp

\* Step of coroutine l in which its fetch returned a snapshot.
SuccessfulFetchStep(l) ==
    pc[l] = "fetch" /\ pc'[l] # "fetch" /\ live_data'[l] # None

\* Step of coroutine l in which its fetch failed.
FailedFetchStep(l) ==
    pc[l] = "fetch" /\ pc'[l] # "fetch" /\ live_data'[l] = None

\* A sleeping coroutine that finds the flag set goes on to fetch again.
SleepLeadsToFetch(l) ==
    (pc[l] = "sleep" /\ pc'[l] # "sleep" /\ is_monitoring) => pc'[l] = "fetch"

\* ----------------------------------------------------------------- C1
\* C1: after every insertion step the timing history and the weather
\* history each hold at most N snapshots.
C1_BoundedHistory ==
    /\ Cardinality(DOMAIN timing_data) <= N
    /\ Cardinality(DOMAIN weather_data) <= N

\* More than N snapshots were inserted and both histories are full.
C1_Witness ==
    /\ Len(inserted_log) > N
    /\ Cardinality(DOMAIN timing_data) = N
    /\ Cardinality(DOMAIN weather_data) = N

\* ----------------------------------------------------------------- C2
\* Timestamps of the n latest entries of the insertion log.
MostRecent(log, n) ==
    {log[i].timestamp : i \in (Max2(Len(log) - n, 0) + 1)..Len(log)}

\* Log entries older than the n latest.
Older(log, n) == {log[i] : i \in 1..(Len(log) - n)}

QuerySizes == 0..(N + 1)

\* C2: after any number of insertions with increasing timestamps into an
\* empty history (N + 5 among them) exactly min(count, N) entries remain,
\* they are the N most recent by timestamp, and no older snapshot is
\* returned by current_standings, driver_history or weather_history.
C2_EvictionKeepsNewest ==
    (session_keys /\ Increasing(inserted_log)) =>
        /\ Cardinality(DOMAIN timing_data) = Min2(Len(inserted_log), N)
        /\ DOMAIN timing_data = MostRecent(inserted_log, N)
        /\ DOMAIN weather_data = MostRecent(inserted_log, N)
        /\ \A e \in Older(inserted_log, N) :
            /\ GetCurrentStandings.kind = "ref" => GetCurrentStandings.ref # e.ref
            /\ \A n \in QuerySizes :
                /\ e.timestamp \notin Range(WeatherHistory(n).timestamps)
                /\ \A d \in Range(DriverNames) :
                       e.timestamp \notin Range(DriverHistory(d, n).timestamps)

\* N + 5 snapshots with increasing timestamps were inserted; N remain.
C2_Witness ==
    /\ Increasing(inserted_log)
    /\ Len(inserted_log) = N + 5
    /\ Cardinality(DOMAIN timing_data) = N

\* ----------------------------------------------------------------- C3
\* C3: total_updates of get_session_statistics equals the number of
\* snapshots received since start, whatever was evicted.
C3_TotalUpdatesCountsAll ==
    (session_keys /\ inserted_log # <<>> /\ Increasing(inserted_log)) =>
        SessionStatistics.total_updates = Len(inserted_log)

C5_SubscriberIsolation ==
    [][\A l \in Loops :
        /\ (SuccessfulFetchStep(l) /\ \E i \in DOMAIN callbacks : callbacks[i] \in FailingCallbacks) =>
            LET ts == live_data'[l].timestamp
            IN /\ \A cb \in Range(callbacks) :
                    Cardinality({j \in DOMAIN notified' :
                                    notified'[j].cb = cb /\ notified'[j].timestamp = ts})
                        = Cardinality({i \in DOMAIN callbacks : callbacks[i] = cb})
               /\ ts \in DOMAIN timing_data' /\ ts \in DOMAIN weather_data'
               /\ is_monitoring' = is_monitoring
               /\ pc'[l] = "sleep"
        /\ SleepLeadsToFetch(l)]_vars

\* A tick has notified the failing callback first and the healthy one after
\* it, and monitoring goes on.
C5_Witness ==
    /\ Len(notified) = 2
    /\ notified[1].failed /\ ~notified[2].failed
    /\ is_monitoring
    /\ \E l \in Loops : pc[l] = "sleep" /\ live_data[l] # None

\* ----------------------------------------------------------------- C6
\* C6: a step in which the fetch fails leaves both histories, the track
\* status and every stored list as they were, invokes no subscriber, leaves
\* the flag alone and puts the loop to sleep, from where it fetches again.
C6_FetchFailureHarmless ==
    [][\A l \in Loops :
        /\ FailedFetchStep(l) =>
            /\ timing_data' = timing_data
            /\ weather_data' = weather_data
            /\ track_status' = track_status
            /\ \A ts \in DOMAIN timing_data :
                    heap'[timing_data[ts]] = heap[timing_data[ts]]
            /\ inserted_log' = inserted_log
            /\ notified' = <<>>
            /\ is_monitoring' = is_monitoring
            /\ pc'[l] = "sleep"
        /\ (pc[l] = "sleep" /\ live_data[l] = None) => SleepLeadsToFetch(l)]_vars

\* A fetch has failed after a snapshot was stored; the loop sleeps and
\* monitoring goes on.
C6_Witness ==
    /\ fetch_failures > 0
    /\ is_monitoring
    /\ DOMAIN timing_data # {}
    /\ \E l \in Loops : pc[l] = "sleep" /\ live_data[l] = None

\* ----------------------------------------------------------------- C7
\* Step in which start_monitoring is called for coroutine l.
StartStep(l) == pc[l] = "idle" /\ pc'[l] = "fetch"

\* C7: a start_monitoring call made while the monitor is running leaves the
\* history, the start time, the subscriber list and the flag as they were.
C7_StartWhileRunningChangesNothing ==
    [][\A l \in Loops : (StartStep(l) /\ is_monitoring) =>
        /\ timing_data' = timing_data
        /\ weather_data' = weather_data
        /\ start_time' = start_time
        /\ callbacks' = callbacks
        /\ is_monitoring' = is_monitoring]_vars

\* ----------------------------------------------------------------- C8
\* C8: a loop that was alive when stop_monitoring was called on a running
\* monitor ends at its next test of the flag: once it sleeps it never goes
\* on to another fetch.
C8_StoppedLoopTerminates ==
    [][\A l \in stop_seen : pc[l] = "sleep" => pc'[l] \in {"sleep", "done"}]_vars

\* ----------------------------------------------------------------- C9
\* C9: stop_monitoring leaves the monitor stopped; on a stopped monitor it
\* changes no field of the monitor and no loop; and the flag goes from
\* stopped to running only in a step that is a start_monitoring call.
C9_Lifecycle ==
    [][/\ StopMonitoring => ~is_monitoring'
       /\ (StopMonitoring /\ ~is_monitoring) =>
            UNCHANGED <<is_monitoring, session_keys, start_time, timing_data,
                        weather_data, track_status, callbacks, pc, heap>>
       /\ (~is_monitoring /\ is_monitoring') => \E l \in Loops : StartStep(l)]_vars

\* The monitor ran, was stopped, and its loop has ended.
C9_Witness ==
    /\ ~is_monitoring
    /\ \E l \in stop_seen : pc[l] = "done"

\* ----------------------------------------------------------------- C10
\* C10: whatever a caller does with what a query returned, every snapshot
\* retained in the history is still what the feed delivered for its
\* timestamp.
C10_RetainedSnapshotsImmutable ==
    \A ts \in DOMAIN timing_data :
        /\ heap[timing_data[ts]] = GenerateSimulatedTiming(ts)
        /\ weather_data[ts] = GenerateSimulatedWeather(ts)

\* C11: get_current_standings returns the per-driver timing of the snapshot
\* with the greatest timestamp, and returns an empty result without raising
\* whenever no snapshot has been received, a monitor that was never started
\* included.
C11_CurrentStandingsNeverRaises ==
    LET got == GetCurrentStandings
    IN /\ DOMAIN timing_data = {} => got = [kind |-> "value", value |-> <<>>]
       /\ DOMAIN timing_data # {} =>
            /\ got.kind = "ref"
            /\ got.ref = timing_data[MaxKey(timing_data)]
            /\ \A t \in DOMAIN timing_data : t <= MaxKey(timing_data)

\* C12: add_callback and remove_callback called while a tick's notification
\* is in progress (from inside a subscriber) take effect from the next tick
\* on: the subscribers invoked for the tick in progress are exactly those
\* registered when its notification started, each invoked once, in order.
C12_MutationDuringNotifyDeferred ==
    [][\A l \in Loops : SuccessfulFetchStep(l) =>
        [i \in 1..Len(notified') |-> notified'[i].cb] = callbacks]_vars

\* C13: one bad data point never ends the session: while the monitor is
\* running and stop has not been called, no fetched snapshot, whatever its
\* content (a snapshot with a missing field included), makes the loop that
\* fetched it leave the running state.
C13_BadSnapshotKeepsRunning ==
    [][\A l \in Loops :
        (is_monitoring /\ SuccessfulFetchStep(l)) =>
            (pc'[l] = "sleep" /\ is_monitoring')]_vars

\* ----------------------------------------------------------------- C14
\* Row of the trace at which a distance was sampled.
IndexOf(distance) == distance \div SampleSpacing

\* C14: in the corner detection and in the braking-zone detection alike,
\* events do not overlap and are emitted in increasing index order: each
\* event ends at or before the index at which the next one starts.
C14_EventsDoNotOverlap ==
    /\ analysis.kind = "cornering" =>
        \A k \in 1..(Len(analysis.corners) - 1) :
            /\ analysis.corners[k].start < analysis.corners[k].end
            /\ analysis.corners[k].end <= analysis.corners[k + 1].start
    /\ analysis.kind = "braking" =>
        \A k \in 1..(Len(analysis.braking_zones) - 1) :
            /\ IndexOf(analysis.braking_zones[k].start_distance)
                 < IndexOf(analysis.braking_zones[k].end_distance)
            /\ IndexOf(analysis.braking_zones[k].end_distance)
                 <= IndexOf(analysis.braking_zones[k + 1].start_distance)

C14_Witness ==
    /\ analysis.kind = "cornering"
    /\ Len(analysis.corners) >= 2

\* ----------------------------------------------------------------- C15
\* Rows from which the trace stays inside a corner / a braking zone until
\* its end: an entry with no exit after it.
OpenCornerRows ==
    {s \in 0..(Len(telemetry) - 1) :
        /\ DiffBelow(telemetry, s, -10)
        /\ \A j \in (s + 1)..(Len(telemetry) - 1) : ~DiffAbove(telemetry, j, 5)}

OpenBrakingRows ==
    {s \in 0..(Len(telemetry) - 1) :
        \A j \in s..(Len(telemetry) - 1) : Brake(telemetry, j) > brake_threshold}

\* C15: a trace that ends inside a corner or a braking zone yields no event
\* for the unterminated suffix (every event ends on a row where the exit
\* condition held, before the suffix), and an empty or single-sample trace
\* yields no event, in both detectors.
C15_UnterminatedSuffixAndShortTraces ==
    /\ analysis.kind = "cornering" =>
        /\ Len(telemetry) <= 1 => analysis.corners = <<>>
        /\ \A k \in DOMAIN analysis.corners :
            /\ analysis.corners[k].end < Len(telemetry)
            /\ DiffAbove(telemetry, analysis.corners[k].end, 5)
            /\ \A s \in OpenCornerRows : analysis.corners[k].end < s
    /\ analysis.kind = "braking" =>
        /\ Len(telemetry) <= 1 => analysis.braking_zones = <<>>
        /\ \A k \in DOMAIN analysis.braking_zones :
            LET end == IndexOf(analysis.braking_zones[k].end_distance)
            IN /\ end < Len(telemetry)
               /\ Brake(telemetry, end) <= brake_threshold
               /\ \A s \in OpenBrakingRows : end < s

C15_Witness ==
    /\ analysis.kind = "braking"
    /\ Len(analysis.braking_zones) = 1
    /\ OpenBrakingRows # {}

\* ----------------------------------------------------------------- C16
\* The valid lap times of a driver in the table.
ValidTimes(d) == Column(DropNa(DriverLaps(laps, d)), "LapTime")

\* C16: for every driver with at least five valid lap times the pace
\* summary has clean_laps <= total_laps, total_laps being the number of
\* valid laps; when all valid lap times are identical no lap is filtered
\* and clean_laps = total_laps.  Drivers with fewer valid laps have no
\* summary.
C16_CleanLapsBound ==
    analysis.kind = "pace" =>
        \A d \in Range(Column(laps, "Driver")) :
            IF Len(ValidTimes(d)) >= 5
            THEN /\ d \in DOMAIN analysis.pace_analysis
                 /\ analysis.pace_analysis[d].total_laps = Len(ValidTimes(d))
                 /\ analysis.pace_analysis[d].clean_laps
                        <= analysis.pace_analysis[d].total_laps
                 /\ Cardinality(Range(ValidTimes(d))) = 1 =>
                        analysis.pace_analysis[d].clean_laps
                            = analysis.pace_analysis[d].total_laps
            ELSE d \notin DOMAIN analysis.pace_analysis

\* Five identical laps, all kept.
C16_Witness ==
    /\ analysis.kind = "pace"
    /\ "HAM" \in DOMAIN analysis.pace_analysis
    /\ Cardinality(Range(ValidTimes("HAM"))) = 1
    /\ analysis.pace_analysis["HAM"].clean_laps = 5

\* ----------------------------------------------------------------- C17
\* The laps reported for driver d, as <<lap number, pit time>> pairs.
Reported(d) ==
    {<<analysis.pit_stops[i].lap_number, analysis.pit_stops[i].pit_time>> :
        i \in {j \in DOMAIN analysis.pit_stops : analysis.pit_stops[j].driver = d}}

\* C17: for a driver with at least three valid laps, a lap is reported as
\* a pit stop if and only if its lap time is strictly greater than 1.5
\* times the median of the driver's valid lap times, once, with pit time
\* lap time minus median; laps [90,90,90,90,140] report exactly the 140 lap
\* with pit time 50.
C17_PitStopThreshold ==
    analysis.kind = "pit_stops" =>
        \A d \in Range(Column(laps, "Driver")) :
            LET valid == DropNa(DriverLaps(laps, d))
                median2 == Median2(ValidTimes(d))
            IN /\ Len(valid) >= 3 =>
                    /\ \A i \in DOMAIN valid :
                        (4 * valid[i].LapTime > 3 * median2)
                        <=> \E e \in Reported(d) :
                                /\ e[1] = valid[i].LapNumber
                                /\ FloatEq(e[2], Frac(2 * valid[i].LapTime - median2, 2))
                    /\ Cardinality(Reported(d)) = Cardinality(
                            {j \in DOMAIN analysis.pit_stops : analysis.pit_stops[j].driver = d})
                    /\ \A e \in Reported(d) :
                            \E i \in DOMAIN valid : e[1] = valid[i].LapNumber
               /\ ValidTimes(d) = <<90, 90, 90, 90, 140>> =>
                    \E e \in Reported(d) :
                        /\ Reported(d) = {e}
                        /\ \E i \in DOMAIN valid :
                                valid[i].LapNumber = e[1] /\ valid[i].LapTime = 140
                        /\ FloatEq(e[2], Frac(50, 1))

C17_Witness ==
    /\ analysis.kind = "pit_stops"
    /\ Column(laps, "LapTime") = <<90, 90, 90, 90, 140>>
    /\ Len(analysis.pit_stops) = 1

\* ----------------------------------------------------------------- C18
\* A stint: a contiguous run of laps of one driver on one compound, given
\* as <<driver, first lap, last lap>>.
LapsOn(d, c) ==
    {laps[i].LapNumber : i \in {j \in DOMAIN laps :
                                    laps[j].Driver = d /\ laps[j].Compound = c}}

QualifyingStints(c) ==
    {st \in Range(Column(laps, "Driver")) \X Range(Column(laps, "LapNumber"))
                \X Range(Column(laps, "LapNumber")) :
        /\ st[3] - st[2] + 1 >= 3
        /\ \A n \in st[2]..st[3] : n \in LapsOn(st[1], c)
        /\ (st[2] - 1) \notin LapsOn(st[1], c)
        /\ (st[3] + 1) \notin LapsOn(st[1], c)}

StintSlope(st) ==
    LET InStint(r) == r.Driver = st[1] /\ r.LapNumber \in st[2]..st[3]
    IN Polyfit(SelectSeq(laps, InStint))

RECURSIVE SlopesOf(_)
SlopesOf(stints) ==
    IF stints = {} THEN <<>>
    ELSE LET st == CHOOSE x \in stints : TRUE
         IN <<StintSlope(st)>> \o SlopesOf(stints \ {st})

\* C18: a stint of at least three laps whose lap times rise by one second
\* per lap ([80,81,82,83]) has degradation +1.0 and the reversed stint -1.0
\* (the least-squares slope of lap time against lap number); the result
\* for a compound is the mean of the slopes of the qualifying stints, and
\* 0.0 when no stint on the compound has at least three laps.  (Stated for
\* tables in which every lap has a lap time.)
C18_DegradationSlope ==
    (analysis.kind = "tire" /\ NaT \notin Range(Column(laps, "LapTime"))) =>
        /\ \A c \in DOMAIN analysis.tire_analysis :
            FloatEq(analysis.tire_analysis[c].average_degradation,
                    IF QualifyingStints(c) = {} THEN Zero
                    ELSE NpMean(SlopesOf(QualifyingStints(c))))
        /\ Column(laps, "LapTime") = <<80, 81, 82, 83>> /\ LapsOn("HAM", "HARD") = {} =>
            FloatEq(analysis.tire_analysis["SOFT"].average_degradation, Frac(1, 1))
        /\ Column(laps, "LapTime") = <<83, 82, 81, 80>> /\ LapsOn("HAM", "HARD") = {} =>
            FloatEq(analysis.tire_analysis["SOFT"].average_degradation, Frac(-1, 1))

\* ----------------------------------------------------------------- C19
\* C19: a lap record with an absent lap time is dropped before aggregation
\* in the pace summary, the pit-stop detection and the degradation alike:
\* each result equals the result computed on the table without the records
\* that have no lap time (the absent value is neither counted as a number
\* nor carried into the result).
C19_AbsentLapTimeDropped ==
    /\ analysis.kind = "pace" =>
        analysis.pace_analysis = RacePaceAnalysis(DropNa(laps))
    /\ analysis.kind = "pit_stops" =>
        analysis.pit_stops = PitStopPerformance(DropNa(laps))
    /\ analysis.kind = "tire" =>
        \A c \in Range(Column(DropNa(laps), "Compound")) :
            FloatEq(analysis.tire_analysis[c].average_degradation,
                    CalculateDegradation(CompoundLaps(DropNa(laps), c), "nan"))

\* ----------------------------------------------------------------- C20
\* C20: in every execution of the polling loops, the notification of a
\* snapshot is finished before the insertion of the next snapshot begins:
\* the step that inserts a snapshot calls every registered subscriber with
\* that very snapshot (the call returns or fails) before the step ends, and
\* no other step calls a subscriber, so no call for an earlier snapshot
\* is outstanding when a later one is inserted.
C20_TickOrdering ==
    [][/\ \A l \in Loops : SuccessfulFetchStep(l) =>
            /\ \A i \in DOMAIN notified' :
                    notified'[i].timestamp = live_data'[l].timestamp
            /\ \A cb \in Range(callbacks) :
                    \E i \in DOMAIN notified' : notified'[i].cb = cb
            /\ Len(inserted_log') = Len(inserted_log) + 1
       /\ (\A l \in Loops : ~SuccessfulFetchStep(l)) =>
            /\ notified' = <<>>
            /\ Len(inserted_log') <= Len(inserted_log)]_vars

\* A second snapshot has been inserted and fanned out.
C20_Witness ==
    /\ Len(inserted_log) >= 2
    /\ Len(notified) = MaxCallbacks
    /\ \A i \in DOMAIN notified :
            notified[i].timestamp = inserted_log[Len(inserted_log)].timestamp
    /\ inserted_log[Len(inserted_log) - 1].timestamp
            < inserted_log[Len(inserted_log)].timestamp

\* ----------------------------------------------------------------- C21
\* C21: snapshots are inserted in strictly increasing timestamp order: the
\* timestamp of each inserted snapshot is strictly greater than every
\* timestamp already retained, so every successful insertion adds a new
\* entry instead of replacing one.
C21_StrictlyIncreasingInsertion ==
    [][\A l \in Loops : SuccessfulFetchStep(l) =>
        /\ \A t \in DOMAIN timing_data : t < live_data'[l].timestamp
        /\ live_data'[l].timestamp \notin DOMAIN timing_data]_vars

\* ----------------------------------------------------------------- C22
\* C22: insert plus evict is one step for readers: a query that runs
\* between the steps of the polling loops (in a callback, or in another
\* coroutine at one of the loop's await points) never finds more than N
\* snapshots in either history, and never finds a timestamp in the timing
\* history that is missing from the weather history, or the reverse.
C22_ReadersSeeWholeTicks ==
    session_keys =>
        /\ Range(DriverHistory("HAM", 0).timestamps) \subseteq DOMAIN weather_data
        /\ Range(WeatherHistory(0).timestamps) \subseteq DOMAIN timing_data
        /\ Len(WeatherHistory(0).timestamps) <= N
        /\ Len(SortedKeys(DOMAIN timing_data)) <= N
        /\ Cardinality(DOMAIN weather_data) <= N
        /\ \A i \in DOMAIN notified :
                notified[i].in_history /\ notified[i].timestamp \in DOMAIN weather_data

\* A reader after an eviction: both histories full, the same keys.
C22_Witness ==
    /\ Len(inserted_log) > N
    /\ Len(WeatherHistory(0).timestamps) = N
    /\ Range(WeatherHistory(0).timestamps) = DOMAIN timing_data
    /\ notified # <<>>

\* ----------------------------------------------------------------- C23
\* The n most recent retained timestamps.
MostRecentKeys(n) ==
    {t \in DOMAIN timing_data :
        Cardinality({u \in DOMAIN timing_data : u > t}) < n}

\* C23: get_driver_history(driver, last_n) returns the driver's timing
\* fields from the last n retained snapshots only, in increasing timestamp
\* order: for every last_n >= 0 the result has at most last_n entries (none
\* for last_n = 0), each from one of the last_n most recent snapshots.
C23_DriverHistoryLastN ==
    session_keys =>
        \A q \in QuerySizes : \A d \in Range(SubSeq(DriverNames, 1, NumDrivers)) :
            LET h == DriverHistory(d, q)
            IN /\ Len(h.timestamps) <= q
               /\ Range(h.timestamps) \subseteq MostRecentKeys(q)
               /\ \A i \in 1..(Len(h.timestamps) - 1) :
                    h.timestamps[i] < h.timestamps[i + 1]
               /\ Len(h.lap_times) = Len(h.timestamps)

\* ----------------------------------------------------------------- C24
Rows == 0..(Len(telemetry) - 1)

\* C24: corner detection is the two-state machine over the first
\* difference of speed: each event starts at the first row after the
\* previous event's end where the speed fell by more than 10, ends at the
\* first later row where it rose by more than 5, and carries min_speed =
\* min(speed[start:end]), entry_speed = speed[start], exit_speed =
\* speed[end]; a further deceleration inside the corner does not move the
\* start; no such pair after the last event is left out.
C24_CornerStateMachine ==
    analysis.kind = "cornering" =>
        LET corners == analysis.corners
            EndBefore(k) == IF k = 1 THEN -1 ELSE corners[k - 1].end
            last == IF corners = <<>> THEN -1 ELSE corners[Len(corners)].end
        IN /\ \A k \in DOMAIN corners :
                LET e == corners[k]
                IN /\ e.start \in Rows /\ e.end \in Rows
                   /\ e.start > EndBefore(k) /\ e.end > e.start
                   /\ DiffBelow(telemetry, e.start, -10)
                   /\ \A i \in (EndBefore(k) + 1)..(e.start - 1) :
                        ~DiffBelow(telemetry, i, -10)
                   /\ DiffAbove(telemetry, e.end, 5)
                   /\ \A j \in (e.start + 1)..(e.end - 1) :
                        ~DiffAbove(telemetry, j, 5)
                   /\ e.min_speed \in {Speed(telemetry, j) : j \in e.start..(e.end - 1)}
                   /\ \A j \in e.start..(e.end - 1) : e.min_speed <= Speed(telemetry, j)
                   /\ e.entry_speed = Speed(telemetry, e.start)
                   /\ e.exit_speed = Speed(telemetry, e.end)
           /\ ~\E i \in Rows : \E j \in Rows :
                /\ last < i /\ i < j
                /\ DiffBelow(telemetry, i, -10)
                /\ DiffAbove(telemetry, j, 5)
           /\ analysis.total_corners = Len(corners)

\* A corner with a second deceleration inside it.
C24_Witness ==
    /\ analysis.kind = "cornering"
    /\ \E k \in DOMAIN analysis.corners :
        \E i \in (analysis.corners[k].start + 1)..(analysis.corners[k].end - 1) :
            DiffBelow(telemetry, i, -10)

\* ----------------------------------------------------------------- C25
\* C25: braking-zone detection is the two-state machine over brake
\* pressure with threshold 50: each zone starts at the first sample after
\* the previous zone's end with brake > 50 and ends at the first later
\* sample with brake <= 50; every sample in [start, end) is above the
\* threshold, the sample at end is at or below it, and max_brake_pressure
\* is max(brake[start:end]); no such pair after the last zone is left out.
C25_BrakingStateMachine ==
    analysis.kind = "braking" =>
        LET zones == analysis.braking_zones
            Start(k) == IndexOf(zones[k].start_distance)
            End(k) == IndexOf(zones[k].end_distance)
            EndBefore(k) == IF k = 1 THEN -1 ELSE End(k - 1)
            last == IF zones = <<>> THEN -1 ELSE End(Len(zones))
        IN /\ brake_threshold = 50
           /\ \A k \in DOMAIN zones :
                /\ Start(k) \in Rows /\ End(k) \in Rows
                /\ Start(k) > EndBefore(k) /\ End(k) > Start(k)
                /\ \A i \in (EndBefore(k) + 1)..(Start(k) - 1) :
                        Brake(telemetry, i) <= 50
                /\ \A j \in Start(k)..(End(k) - 1) : Brake(telemetry, j) > 50
                /\ Brake(telemetry, End(k)) <= 50
                /\ zones[k].max_brake_pressure
                        \in {Brake(telemetry, j) : j \in Start(k)..(End(k) - 1)}
                /\ \A j \in Start(k)..(End(k) - 1) :
                        Brake(telemetry, j) <= zones[k].max_brake_pressure
                /\ zones[k].start_speed = Speed(telemetry, Start(k))
                /\ zones[k].end_speed = Speed(telemetry, End(k))
           /\ ~\E i \in Rows : \E j \in Rows :
                /\ last < i /\ i < j
                /\ Brake(telemetry, i) > 50
                /\ Brake(telemetry, j) <= 50
           /\ analysis.total_braking_zones = Len(zones)

\* A zone over two samples of different pressure.
C25_Witness ==
    /\ analysis.kind = "braking"
    /\ \E k \in DOMAIN analysis.braking_zones :
        /\ analysis.braking_zones[k].braking_distance >= 2 * SampleSpacing
        /\ analysis.braking_zones[k].max_brake_pressure = 100
        /\ Brake(telemetry, IndexOf(analysis.braking_zones[k].start_distance)) = 51

\* ----------------------------------------------------------------- C29
\* C29: every emitted corner event has min_speed <= entry_speed and
\* min_speed < exit_speed.
C29_CornerMinSpeed ==
    analysis.kind = "cornering" =>
        \A k \in DOMAIN analysis.corners :
            /\ analysis.corners[k].min_speed <= analysis.corners[k].entry_speed
            /\ analysis.corners[k].min_speed < analysis.corners[k].exit_speed

\* A corner whose minimum is below its entry speed.
C29_Witness ==
    /\ analysis.kind = "cornering"
    /\ \E k \in DOMAIN analysis.corners :
        analysis.corners[k].min_speed < analysis.corners[k].entry_speed

\* ----------------------------------------------------------------- C26
\* A loop that is polling: it awaits a fetch, or it sleeps and will find
\* the flag set when it wakes.
Polling(l) == pc[l] = "fetch" \/ (pc[l] = "sleep" /\ is_monitoring)

\* C26: for any interleaving of start_monitoring and stop_monitoring calls
\* on one monitor, at most one polling loop is executing ticks at any time;
\* a loop that was stopped while sleeping is not polling again after
\* monitoring was started anew before it woke.
C26_AtMostOneLoop ==
    /\ Cardinality({l \in Loops : Polling(l)}) <= 1
    /\ \A l \in stop_seen : ~(pc[l] = "sleep" /\ is_monitoring)

\* ----------------------------------------------------------------- C27
\* C27: in every state reached by any sequence of start, polls (successful,
\* failed or with malformed snapshots) and stop, the timing history and the
\* weather history hold exactly the same set of timestamps.
C27_HistoriesShareTimestamps == DOMAIN timing_data = DOMAIN weather_data

\* ----------------------------------------------------------------- C28
\* C28: after remove_callback(cb) returns, cb is not invoked on any later
\* tick, however many times add_callback(cb) was called before (cb is no
\* longer in the subscriber list); and removing a callback that is not
\* registered leaves the subscriber list unchanged.
C28_RemovedCallbackGone ==
    [][\A cb \in Callbacks : RemoveCallback(cb) =>
        /\ cb \notin Range(callbacks')
        /\ cb \notin Range(callbacks) => callbacks' = callbacks]_vars

\* ----------------------------------------------------------------- C30
\* The events reported for driver d.
EventsOf(d) == {j \in DOMAIN analysis.pit_stops : analysis.pit_stops[j].driver = d}

\* C30: for a driver with n >= 3 valid positive lap times, at most
\* floor(n/2) laps are reported as pit stops, and every reported event has
\* a pit time strictly greater than half the median of the driver's valid
\* lap times.
C30_PitStopCountAndDelta ==
    analysis.kind = "pit_stops" =>
        \A d \in Range(Column(laps, "Driver")) :
            LET times == ValidTimes(d)
                n == Len(times)
            IN (n >= 3 /\ \A i \in DOMAIN times : times[i] > 0) =>
                /\ Cardinality(EventsOf(d)) <= n \div 2
                /\ \A j \in EventsOf(d) :
                    LET pit_time == analysis.pit_stops[j].pit_time
                    IN /\ pit_time.kind = "float"
                       /\ pit_time.den > 0
                       /\ 4 * pit_time.num > Median2(times) * pit_time.den

\* Five valid laps of which two, the most the bound allows, are reported.
C30_Witness ==
    /\ analysis.kind = "pit_stops"
    /\ Len(ValidTimes("HAM")) = 5
    /\ Cardinality(EventsOf("HAM")) = 2

====
